---- MODULE Spec2Model ----
(***************************************************************************)
(* Ledger replay of the paper-trading backend: the asset curves rebuilt    *)
(* from the trade log and the price history.                               *)
(*                                                                         *)
(*   calendar curve    api/account_routes.py  get_asset_curve,             *)
(*                                            get_all_asset_curves_data    *)
(*   timeframe curve   api/account_routes.py  get_asset_curve_by_timeframe *)
(*   WebSocket curve   api/ws.py              get_all_asset_curves_data    *)
(*   calculator curve  services/asset_curve_calculator.py                  *)
(*                                                                         *)
(* Amounts are integers (the code converts DECIMAL columns to float); the  *)
(* market column is always "CRYPTO" and is left out of the keys.  In       *)
(* account_routes.py the account entity is called user (Trade.user_id,     *)
(* user.initial_capital): user ids and account ids are the same ids here.  *)
(***************************************************************************)
EXTENDS Integers, Sequences, FiniteSets, TLC

\* ---------------------------------------------------------------- bounds
MaxTrades == 2
MaxTime == 2
MaxBars == 2
TicksPerDay == 2
MaxSockets == 3

Accounts == {1, 2}
Requests == {1, 2}
WebSockets == 1..MaxSockets
Symbols == {"BTC", "ETH"}
Quantities == {1, 2}
InitialCapitals == {1000}

VARIABLES
    now,            \* the clock, in ticks (datetime.now(), date.today())
    accounts,       \* Account rows: id -> [initial_capital, current_cash, frozen_cash]
    trades,         \* Trade rows in insertion order
    prices,         \* CryptoPrice rows
    pc,             \* "idle" | "done": a request handler has produced its response
    req,            \* the request being answered: [op, user_id]
    status,         \* the response status (200, 500), 0 while idle
    result,         \* the response body: the sequence of curve points
    warnings,       \* data-gap warnings logged while answering the request
    symbol_klines,  \* the handler's symbol_klines: symbol -> fetched bars
    first_klines,   \* the handler's first_klines: the reference series
    storage_failed, \* a query of the request raised (a storage-layer failure)
    requests,       \* concurrent get_asset_curve calls: request -> its position
    curve_data,     \* the curve_data list of each concurrent call
    active_connections, \* ConnectionManager.active_connections: account -> websockets
    scheduler_started,  \* TaskScheduler._started
    jobs,           \* the scheduler's snapshot jobs, by account id
    sent,           \* the last snapshot message handed to send_to_account
    lookup_failed,  \* the symbols whose get_last_price raised while it was built
    endpoint,       \* websocket_endpoint: websocket -> [state, account_id, user_id]
    clock,          \* time.time(), in seconds
    cache,          \* PriceCache.cache: (symbol, market) -> [price, timestamp]
    lock,           \* PriceCache.lock: 0 when free, else the thread holding it
    threads,        \* the threads calling PriceCache: position, locals, result
    last_set,       \* history: what the latest set wrote for each key
    ai_call,        \* call_ai_for_decision: position, attempt, requests made, result
    position_rows,  \* Position.available_quantity per account and symbol, in 1/QuantityScale
    order_seq,      \* the number of Order rows, the id of the latest one
    ai_run,         \* place_ai_driven_crypto_order: position, accounts, prices, index
    last_account,   \* history: what the run did for the account it handled last
    passwords,      \* User.password per user: None (the empty set) or the stored hash
    auth_sessions,  \* UserAuthSession rows: [session_token, user_id, expires_at]
    response        \* POST /api/orders/create: the latest request and its response

db == <<now, accounts, trades, prices>>
handler == <<pc, req, status, result, warnings, symbol_klines, first_klines, storage_failed>>
connections == <<active_connections, scheduler_started, jobs>>
price_cache == <<clock, cache, lock, threads, last_set>>
ai_trading == <<position_rows, order_seq, ai_run, last_account>>
order_route == <<passwords, auth_sessions, response>>
services == <<endpoint, price_cache, ai_call, ai_trading, order_route>>
core == <<db, handler, requests, curve_data, connections, sent, lookup_failed>>
runtime == <<requests, curve_data, connections, sent, lookup_failed, services>>
vars == <<db, handler, runtime>>

\* ------------------------------------------------------------- helpers
\* func.date(Trade.trade_time), trade_time.date(), date.today()
DateOf(t) == t \div TicksPerDay

Front(s) == SubSeq(s, 1, Len(s) - 1)
Last(s) == s[Len(s)]

RECURSIVE SumOver(_, _)
SumOver(S, f) ==
    IF S = {} THEN 0
    ELSE LET x == CHOOSE y \in S : TRUE IN f[x] + SumOver(S \ {x}, f)

\* sorted(...) of a set of dates
RECURSIVE Sorted(_)
Sorted(S) ==
    IF S = {} THEN <<>>
    ELSE LET m == CHOOSE x \in S : \A y \in S : x <= y IN <<m>> \o Sorted(S \ {m})

NoRequest == [op |-> "none", user_id |-> 0]

\* place_ai_driven_crypto_order is not running
NoRun == [pc |-> "idle", accounts |-> <<>>, known |-> {}, i |-> 0]

\* the run has handled no account yet; optional values are the empty set
\* or a singleton
NoAccount == [account_id |-> 0, decision |-> {}, available |-> 0, raised |-> FALSE,
              order |-> {}, saves |-> <<>>]

\* call_ai_for_decision is not running
NoCall == [pc |-> "idle", account_id |-> 0, api_key |-> "", attempt |-> 0,
           posts |-> <<>>, sleeps |-> 0, result |-> "None"]

\* the threads that call the price cache
Threads == {1, 2}

\* a thread outside PriceCache; op and result are those of its last call,
\* an optional result being the empty set (None) or a singleton
IdleThread(op, returned) ==
    [pc |-> "idle", op |-> op, key |-> "", current_time |-> 0, price |-> 0,
     expired_keys |-> {}, result |-> returned]

\* a websocket whose endpoint has not been entered; 0 stands for None
NotAccepted == [state |-> "none", account_id |-> 0, user_id |-> 0]

\* no snapshot has been sent yet
NoSnapshot == [type |-> "none"]

\* a concurrent call that has not started or has returned
IdleRequest == [pc |-> "idle", user_id |-> 0, relevant_dates |-> <<>>, next |-> 0]

\* the query without its account filter
TradesOfAnyAccount(a) == trades

\* db.query(Trade).filter(Trade.user_id == user_id).order_by(Trade.trade_time.asc())
TradesOf(a) == SelectSeq(trades, LAMBDA tr : tr.account_id = a)

\* Position rows kept by order execution: the quantity held of a symbol
RECURSIVE HeldIn(_, _)
HeldIn(seq, sym) ==
    IF seq = <<>> THEN 0
    ELSE HeldIn(Front(seq), sym)
         + (IF Last(seq).symbol # sym THEN 0
            ELSE IF Last(seq).side = "BUY" THEN Last(seq).quantity ELSE 0 - Last(seq).quantity)

Held(a, sym) == HeldIn(TradesOf(a), sym)

\* services.market_data.get_last_price: the market's price of a symbol when
\* it is asked for; BTC 100, 110, ... and ETH 50, 60, ...
LastPrice(sym, t) == (IF sym = "BTC" THEN 100 ELSE 50) + 10 * t

\* -------------------------------------------------------------------- Init
Init ==
    /\ now = 0
    /\ accounts \in [Accounts -> {[initial_capital |-> c, current_cash |-> c, frozen_cash |-> 0] : c \in InitialCapitals}]
    /\ trades = <<>>
    /\ prices = {}
    /\ pc = "idle"
    /\ req = NoRequest
    /\ status = 0
    /\ result = <<>>
    /\ warnings = {}
    /\ symbol_klines = <<>>
    /\ first_klines = <<>>
    /\ storage_failed = FALSE
    /\ requests = [r \in Requests |-> IdleRequest]
    /\ curve_data = [r \in Requests |-> <<>>]
    /\ active_connections = <<>>
    /\ scheduler_started = FALSE
    /\ jobs = <<>>
    /\ sent = NoSnapshot
    /\ lookup_failed = {}
    /\ endpoint = [w \in WebSockets |-> NotAccepted]
    /\ clock = 0
    /\ cache = <<>>
    /\ lock = 0
    /\ threads = [t \in Threads |-> IdleThread("none", {})]
    /\ last_set = <<>>
    /\ ai_call = NoCall
    /\ position_rows = [a \in Accounts |-> [sym \in Symbols |-> 0]]
    /\ order_seq = 0
    /\ ai_run = NoRun
    /\ last_account = NoAccount
    /\ passwords = [u \in Accounts |-> {}]
    /\ auth_sessions = {}
    /\ response = [status |-> 0, created |-> FALSE]

\* ----------------------------------------------------------- environment
Tick ==
    /\ pc = "idle"
    /\ now < MaxTime
    /\ now' = now + 1
    /\ UNCHANGED <<accounts, trades, prices, handler, runtime>>

\* Order execution (services/order_matching): a market order fills at the
\* last price; a Trade row is appended with trade_time = current_timestamp
\* and the account's live cash is updated.
ExecuteTrade(a, sym, side, qty) ==
    LET price == LastPrice(sym, now)
        commission == 1
        tr == [id |-> Len(trades) + 1, account_id |-> a, symbol |-> sym, side |-> side, price |-> price,
               quantity |-> qty, commission |-> commission, trade_time |-> now]
        amount == price * qty
    IN  /\ pc = "idle"
        /\ Len(trades) < MaxTrades
        /\ side = "BUY" => accounts[a].current_cash >= amount + commission
        /\ side = "SELL" => Held(a, sym) >= qty
        /\ trades' = Append(trades, tr)
        /\ accounts' = [accounts EXCEPT ![a].current_cash =
                            IF side = "BUY" THEN @ - (amount + commission)
                            ELSE @ + (amount - commission)]
        /\ UNCHANGED <<now, prices, handler, runtime>>

\* the job saving the last price without looking for today's row first
SavePositionPricesUnchecked(a, ok) ==
    LET today == DateOf(now)
        positions == {sym \in Symbols : Held(a, sym) > 0}
    IN  /\ pc = "idle"
        /\ positions # {}
        /\ ok \subseteq positions
        /\ prices' = prices \cup {[symbol |-> sym, price |-> LastPrice(sym, now),
                                   price_date |-> today] : sym \in ok}
        /\ UNCHANGED <<now, accounts, trades, handler, runtime>>

\* TaskScheduler._save_position_prices: for every position of the account
\* with quantity > 0 and no CryptoPrice row of today, the last price is
\* fetched and saved; a failing fetch (not in ok) rolls back and goes on.
SavePositionPrices(a, ok) ==
    LET today == DateOf(now)
        positions == {sym \in Symbols : Held(a, sym) > 0}
        existing(sym) == \E p \in prices : p.symbol = sym /\ p.price_date = today
        saved == {sym \in positions : ~existing(sym) /\ sym \in ok}
    IN  /\ pc = "idle"
        /\ positions # {}
        /\ ok \subseteq positions
        /\ prices' = prices \cup {[symbol |-> sym, price |-> LastPrice(sym, now),
                                   price_date |-> today] : sym \in saved}
        /\ UNCHANGED <<now, accounts, trades, handler, runtime>>

\* ------------------------------------------------------- calendar replay
\* the query of _calculate_cash_changes_up_to_date and of
\* _calculate_positions_value_on_date: func.date(trade_time) <= target_date
TradesUpToDate(a, target_date) ==
    SelectSeq(trades, LAMBDA tr : tr.account_id = a /\ DateOf(tr.trade_time) <= target_date)

CashStep(cash_change, trade) ==
    LET trade_amount == trade.price * trade.quantity + trade.commission
    IN  IF trade.side = "BUY" THEN cash_change - trade_amount
        ELSE cash_change + trade_amount

RECURSIVE CashFold(_)
CashFold(seq) ==
    IF seq = <<>> THEN 0 ELSE CashStep(CashFold(Front(seq)), Last(seq))

CalculateCashChangesUpToDate(a, target_date) == CashFold(TradesUpToDate(a, target_date))

\* a SELL that adds to the net quantity instead of reducing it
QuantityStepSellAdds(position_quantities, trade) ==
    LET key == trade.symbol
        pq == IF key \in DOMAIN position_quantities THEN position_quantities
              ELSE position_quantities @@ (key :> 0)
    IN  [pq EXCEPT ![key] = @ + trade.quantity]

\* position_quantities: a dict from the symbol key to the net quantity
QuantityStep(position_quantities, trade) ==
    LET key == trade.symbol
        pq == IF key \in DOMAIN position_quantities THEN position_quantities
              ELSE position_quantities @@ (key :> 0)
    IN  [pq EXCEPT ![key] = IF trade.side = "BUY" THEN @ + trade.quantity
                            ELSE @ - trade.quantity]

RECURSIVE QuantityFold(_)
QuantityFold(seq) ==
    IF seq = <<>> THEN <<>> ELSE QuantityStep(QuantityFold(Front(seq)), Last(seq))

\* CryptoPrice rows of the symbol with price_date <= target_date
PricesUpTo(sym, target_date) ==
    {p \in prices : p.symbol = sym /\ p.price_date <= target_date}

\* ordering by price_date ascending: the earliest record instead of the latest
EarliestPrice(sym, target_date) ==
    CHOOSE p \in PricesUpTo(sym, target_date) :
        \A q \in PricesUpTo(sym, target_date) : p.price_date <= q.price_date

\* .order_by(CryptoPrice.price_date.desc()).first()
LatestPrice(sym, target_date) ==
    CHOOSE p \in PricesUpTo(sym, target_date) :
        \A q \in PricesUpTo(sym, target_date) : q.price_date <= p.price_date

ValuedOnDate(pq, target_date) ==
    {sym \in DOMAIN pq : pq[sym] > 0 /\ PricesUpTo(sym, target_date) # {}}

CalculatePositionsValueOnDate(a, target_date) ==
    LET pq == QuantityFold(TradesUpToDate(a, target_date))
        valued == ValuedOnDate(pq, target_date)
    IN  SumOver(valued, [sym \in valued |-> LatestPrice(sym, target_date).price * pq[sym]])

\* logger.warning for a held symbol without price data
GapWarnings(a, target_date) ==
    LET pq == QuantityFold(TradesUpToDate(a, target_date))
    IN  {<<a, sym, target_date>> : sym \in
            {s \in DOMAIN pq : pq[s] > 0 /\ PricesUpTo(s, target_date) = {}}}

\* the dates without the filter d >= first_trade_date
RelevantDatesUnfiltered(a) ==
    LET trade_dates == {DateOf(TradesOf(a)[i].trade_time) : i \in 1..Len(TradesOf(a))}
        price_dates == {p.price_date : p \in prices}
    IN  Sorted(trade_dates \cup price_dates)

\* the dates of the account's trades only, without the price dates
RelevantDatesTradesOnly(a) ==
    Sorted({DateOf(TradesOf(a)[i].trade_time) : i \in 1..Len(TradesOf(a))})

RelevantDates(a) ==
    LET first_trade_date == DateOf(TradesOf(a)[1].trade_time)
        trade_dates == {DateOf(TradesOf(a)[i].trade_time) : i \in 1..Len(TradesOf(a))}
        price_dates == {p.price_date : p \in prices}
        all_dates == trade_dates \cup price_dates
    IN  Sorted({d \in all_dates : d >= first_trade_date})

CalendarPoint(a, target_date) ==
    LET cash_changes == CalculateCashChangesUpToDate(a, target_date)
        current_cash == accounts[a].initial_capital + cash_changes
        positions_value == CalculatePositionsValueOnDate(a, target_date)
    IN  [date |-> target_date, total_assets |-> current_cash + positions_value,
         cash |-> current_cash, positions_value |-> positions_value, is_initial |-> FALSE]

\* the first point: the day before the first trade, valued at the initial capital
StartPoint(a, first_trade_date) ==
    [date |-> first_trade_date - 1, total_assets |-> accounts[a].initial_capital,
     cash |-> accounts[a].initial_capital, positions_value |-> 0, is_initial |-> TRUE]

\* if not first_trade: the single point of a user without trades
NoTradeCurve(a) ==
    << [date |-> DateOf(now), total_assets |-> accounts[a].initial_capital,
        cash |-> accounts[a].current_cash, positions_value |-> 0, is_initial |-> TRUE] >>

\* the points of one user: the body of get_asset_curve after the user lookup
UserCurve(a) ==
    IF TradesOf(a) = <<>>
    THEN NoTradeCurve(a)
    ELSE LET first_trade_date == DateOf(TradesOf(a)[1].trade_time)
             relevant_dates == RelevantDates(a)
         IN  <<StartPoint(a, first_trade_date)>>
             \o [i \in 1..Len(relevant_dates) |-> CalendarPoint(a, relevant_dates[i])]

UserWarnings(a) ==
    IF TradesOf(a) = <<>> THEN {}
    ELSE UNION {GapWarnings(a, RelevantDates(a)[i]) : i \in 1..Len(RelevantDates(a))}

\* GET /api/account/asset-curve
GetAssetCurve(a) ==
    /\ pc = "idle"
    /\ pc' = "done"
    /\ req' = [op |-> "asset_curve", user_id |-> a]
    /\ status' = 200
    /\ result' = UserCurve(a)
    /\ warnings' = UserWarnings(a)
    /\ UNCHANGED <<db, symbol_klines, first_klines, storage_failed, runtime>>

WithUser(points, a) ==
    [i \in 1..Len(points) |-> points[i] @@ [user_id |-> a]]

\* for user in db.query(User).all(): the points of each user, in turn
RECURSIVE AllUsersCurve(_)
AllUsersCurve(users) ==
    IF users = <<>> THEN <<>>
    ELSE AllUsersCurve(Front(users)) \o WithUser(UserCurve(Last(users)), Last(users))

\* get_all_asset_curves_data of account_routes.py (GET /asset-curve/all has
\* the same body): the curves of all users, one after the other
GetAllAssetCurves ==
    /\ pc = "idle"
    /\ pc' = "done"
    /\ req' = [op |-> "all_asset_curves", user_id |-> 0]
    /\ status' = 200
    /\ result' = AllUsersCurve(Sorted(Accounts))
    /\ warnings' = UNION {UserWarnings(a) : a \in Accounts}
    /\ UNCHANGED <<db, symbol_klines, first_klines, storage_failed, runtime>>

\* --------------------------------------- the date helpers of api/ws.py
WsCashStep(cash_changes, trade) ==
    IF trade.side = "BUY"
    THEN cash_changes - (trade.price * trade.quantity + trade.commission)
    ELSE cash_changes + (trade.price * trade.quantity - trade.commission)

RECURSIVE WsCashFold(_)
WsCashFold(seq) ==
    IF seq = <<>> THEN 0 ELSE WsCashStep(WsCashFold(Front(seq)), Last(seq))

WsCalculateCashChangesUpToDate(a, target_date) == WsCashFold(TradesUpToDate(a, target_date))

WsCalculatePositionsValueOnDate(a, target_date) ==
    LET positions == QuantityFold(TradesUpToDate(a, target_date))
        valued == {sym \in DOMAIN positions :
                      positions[sym] > 0 /\ PricesUpTo(sym, target_date) # {}}
    IN  SumOver(valued, [sym \in valued |-> LatestPrice(sym, target_date).price * positions[sym]])

\* a call of the two helpers for one account and date; a missing price
\* record is skipped without a log line
WsValueOnDate(a, target_date) ==
    /\ pc = "idle"
    /\ pc' = "done"
    /\ req' = [op |-> "ws_value_on_date", user_id |-> a]
    /\ status' = 200
    /\ result' = << [date |-> target_date,
                     cash_changes |-> WsCalculateCashChangesUpToDate(a, target_date),
                     positions_value |-> WsCalculatePositionsValueOnDate(a, target_date)] >>
    /\ warnings' = {}
    /\ UNCHANGED <<db, symbol_klines, first_klines, storage_failed, runtime>>

\* ------------------------------------------------------ timeframe replay
\* db.query(Trade.symbol, Trade.market).distinct()
UniqueSymbols == {trades[i].symbol : i \in 1..Len(trades)}

\* services.market_data.get_kline_data(symbol, market, period, 20): the
\* last n bars up to now, one bar per tick, each closing at the last price
Bars(sym, n) ==
    [j \in 1..n |-> [timestamp |-> now - n + j, close |-> LastPrice(sym, now - n + j)]]

\* what one fetch can give: nothing (an exception or an empty list), all
\* the bars asked for, fewer bars, or bars whose first close is missing
FetchKinds == {"none", "full", "short", "noclose"}

Klines(sym, kind) ==
    CASE kind = "none" -> <<>>
      [] kind = "full" -> Bars(sym, MaxBars)
      [] kind = "short" -> Bars(sym, MaxBars - 1)
      [] kind = "noclose" -> [Bars(sym, MaxBars) EXCEPT ![1].close = 0]

\* symbol_klines[(symbol, market)] = klines, only where klines is not empty
SymbolKlines(fetched) ==
    LET got == {sym \in DOMAIN fetched : Klines(sym, fetched[sym]) # <<>>}
    IN  [sym \in got |-> Klines(sym, fetched[sym])]

Timestamps(klines) == [i \in 1..Len(klines) |-> klines[i].timestamp]

\* only the trades made at the timestamp itself
TradesAtTs(a, ts) ==
    SelectSeq(TradesOf(a), LAMBDA tr : tr.trade_time = ts)

\* the trades strictly before the timestamp
TradesBeforeTs(a, ts) ==
    SelectSeq(TradesOf(a), LAMBDA tr : tr.trade_time < ts)

\* for trade in trades: if trade_time <= ts_datetime
TradesUpToTs(a, ts) ==
    SelectSeq(TradesOf(a), LAMBDA tr : tr.trade_time <= ts)

\* the price of a position at the i-th timestamp: klines[i]['close'] of the
\* symbol's own series, when it has an i-th bar with a close
BarValue(sk, sym, i, quantity) ==
    IF quantity > 0 /\ sym \in DOMAIN sk
    THEN IF i <= Len(sk[sym]) /\ sk[sym][i].close # 0
         THEN sk[sym][i].close * quantity
         ELSE 0
    ELSE 0

\* one pass of the loop over timestamps of _create_account_timeline; the
\* loops of ws.get_all_asset_curves_data and get_asset_curve_by_timeframe
\* are the same statements
TimelinePoint(a, i, ts, sk) ==
    LET folded == TradesUpToTs(a, ts)
        cash_change == CashFold(folded)
        position_quantities == QuantityFold(folded)
        current_cash == accounts[a].initial_capital + cash_change
        positions_value ==
            SumOver(DOMAIN position_quantities,
                    [sym \in DOMAIN position_quantities |->
                        BarValue(sk, sym, i, position_quantities[sym])])
    IN  [timestamp |-> ts, total_assets |-> current_cash + positions_value,
         cash |-> current_cash, positions_value |-> positions_value]

\* if not trades: the initial capital at all timestamps
NoTradePoint(a, ts) ==
    [timestamp |-> ts, total_assets |-> accounts[a].initial_capital,
     cash |-> accounts[a].initial_capital, positions_value |-> 0]

\* an account without trades left out of the timeline
CreateAccountTimelineTradedOnly(a, timestamps, sk) ==
    IF TradesOf(a) = <<>>
    THEN <<>>
    ELSE [i \in 1..Len(timestamps) |-> TimelinePoint(a, i, timestamps[i], sk)]

CreateAccountTimeline(a, timestamps, sk) ==
    IF TradesOf(a) = <<>>
    THEN [i \in 1..Len(timestamps) |-> NoTradePoint(a, timestamps[i])]
    ELSE [i \in 1..Len(timestamps) |-> TimelinePoint(a, i, timestamps[i], sk)]

\* tag the points of an account: "account_id" in the calculator,
\* "username" (account.name) in ws.py, "user_id" in account_routes.py
Tagged(points, tag) == [i \in 1..Len(points) |-> points[i] @@ tag]

RECURSIVE AllTimelines(_, _, _, _)
AllTimelines(accs, timestamps, sk, field) ==
    IF accs = <<>> THEN <<>>
    ELSE AllTimelines(Front(accs), timestamps, sk, field)
         \o Tagged(CreateAccountTimeline(Last(accs), timestamps, sk),
                   [f \in {field} |-> Last(accs)])

\* the fallback points stamped with the epoch instead of the current time
NowPointsAtEpoch(accs, field, live_cash) ==
    [i \in 1..Len(accs) |->
        [timestamp |-> 0, total_assets |-> accounts[accs[i]].initial_capital,
         cash |-> IF live_cash THEN accounts[accs[i]].current_cash
                  ELSE accounts[accs[i]].initial_capital,
         positions_value |-> 0] @@ [f \in {field} |-> accs[i]]]

\* the one point per account "at now" of the fallbacks
NowPoints(accs, field, live_cash) ==
    [i \in 1..Len(accs) |->
        [timestamp |-> now, total_assets |-> accounts[accs[i]].initial_capital,
         cash |-> IF live_cash THEN accounts[accs[i]].current_cash
                  ELSE accounts[accs[i]].initial_capital,
         positions_value |-> 0] @@ [f \in {field} |-> accs[i]]]

\* result.sort(key=lambda x: (x['timestamp'], x['account_id'])), a stable
\* insertion sort
KeyLeq(p, q) ==
    \/ p.timestamp < q.timestamp
    \/ p.timestamp = q.timestamp /\ p.account_id <= q.account_id

RECURSIVE InsertSorted(_, _)
InsertSorted(sorted, p) ==
    IF sorted = <<>> THEN <<p>>
    ELSE IF KeyLeq(Last(sorted), p) THEN Append(sorted, p)
    ELSE Append(InsertSorted(Front(sorted), p), Last(sorted))

RECURSIVE SortByTimestampAccount(_)
SortByTimestampAccount(points) ==
    IF points = <<>> THEN <<>>
    ELSE InsertSorted(SortByTimestampAccount(Front(points)), Last(points))

\* a response that also writes the account balances back
RespondWritingBalances(op, code, points, sk, first) ==
    /\ pc' = "done"
    /\ req' = [op |-> op, user_id |-> 0]
    /\ status' = code
    /\ result' = points
    /\ warnings' = {}
    /\ symbol_klines' = sk
    /\ first_klines' = first
    /\ accounts' = [a \in Accounts |-> [accounts[a] EXCEPT !.current_cash = accounts[a].initial_capital]]
    /\ UNCHANGED <<now, trades, prices, storage_failed, runtime>>

Respond(op, code, points, sk, first) ==
    /\ pc' = "done"
    /\ req' = [op |-> op, user_id |-> 0]
    /\ status' = code
    /\ result' = points
    /\ warnings' = {}
    /\ symbol_klines' = sk
    /\ first_klines' = first
    /\ UNCHANGED <<db, storage_failed, runtime>>

\* services/asset_curve_calculator.py get_all_asset_curves_data_new
GetAllAssetCurvesDataNew(fetched, ref) ==
    LET accs == Sorted(Accounts)
        sk == SymbolKlines(fetched)
    IN  /\ pc = "idle"
        /\ IF UniqueSymbols = {} \/ DOMAIN sk = {}
           THEN Respond("calculator", 200, NowPoints(accs, "account_id", FALSE), sk, <<>>)
           ELSE /\ ref \in DOMAIN sk
                /\ Respond("calculator", 200,
                           SortByTimestampAccount(
                               AllTimelines(accs, Timestamps(sk[ref]), sk, "account_id")),
                           sk, sk[ref])

\* api/ws.py get_all_asset_curves_data
WsGetAllAssetCurvesData(fetched, ref) ==
    LET accs == Sorted(Accounts)
        sk == SymbolKlines(fetched)
    IN  /\ pc = "idle"
        /\ IF UniqueSymbols = {} \/ DOMAIN sk = {}
           THEN Respond("ws", 200, NowPoints(accs, "username", TRUE), sk, <<>>)
           ELSE /\ ref \in DOMAIN sk
                /\ Respond("ws", 200,
                           AllTimelines(accs, Timestamps(sk[ref]), sk, "username"),
                           sk, sk[ref])

\* api/account_routes.py GET /api/account/asset-curve/timeframe
GetAssetCurveByTimeframe(fetched, ref) ==
    LET accs == Sorted(Accounts)
        sk == SymbolKlines(fetched)
    IN  /\ pc = "idle"
        /\ IF UniqueSymbols = {}
           THEN Respond("timeframe", 200, NowPoints(accs, "user_id", TRUE), sk, <<>>)
           ELSE IF DOMAIN sk = {}
           THEN Respond("timeframe", 500, <<>>, sk, <<>>)
           ELSE /\ ref \in DOMAIN sk
                /\ Respond("timeframe", 200,
                           AllTimelines(accs, Timestamps(sk[ref]), sk, "user_id"),
                           sk, sk[ref])

\* every way the fetches of one request can turn out
Fetches == [UniqueSymbols -> FetchKinds]

\* the response has been sent; the handler's locals are gone
Return ==
    /\ pc = "done"
    /\ pc' = "idle"
    /\ req' = NoRequest
    /\ status' = 0
    /\ result' = <<>>
    /\ warnings' = {}
    /\ symbol_klines' = <<>>
    /\ first_klines' = <<>>
    /\ storage_failed' = FALSE
    /\ UNCHANGED <<db, runtime>>

Dates == 0..DateOf(MaxTime)

Next ==
    \/ Tick
    \/ \E a \in Accounts, sym \in Symbols, side \in {"BUY", "SELL"}, qty \in Quantities :
          ExecuteTrade(a, sym, side, qty)
    \/ \E a \in Accounts, ok \in SUBSET Symbols : SavePositionPrices(a, ok)
    \/ \E a \in Accounts : GetAssetCurve(a)
    \/ GetAllAssetCurves
    \/ \E a \in Accounts, d \in Dates : WsValueOnDate(a, d)
    \/ \E fetched \in Fetches, ref \in Symbols : GetAllAssetCurvesDataNew(fetched, ref)
    \/ \E fetched \in Fetches, ref \in Symbols : WsGetAllAssetCurvesData(fetched, ref)
    \/ \E fetched \in Fetches, ref \in Symbols : GetAssetCurveByTimeframe(fetched, ref)
    \/ Return

Spec == Init /\ [][Next]_vars

\* ------------------------------------------------- storage-layer failures
\* the response of a request during which a query raised
RespondFailed(op, a, code, points, logged) ==
    /\ pc = "idle"
    /\ pc' = "done"
    /\ req' = [op |-> op, user_id |-> a]
    /\ status' = code
    /\ result' = points
    /\ warnings' = logged
    /\ storage_failed' = TRUE
    /\ UNCHANGED <<db, symbol_klines, first_klines, runtime>>

\* get_asset_curve when the first-trade query raises (early): the outer
\* except turns it into HTTP 500; when the queries of some relevant dates
\* raise (failing): the try block inside the loop logs and continues
GetAssetCurveFailing(a, early, failing) ==
    IF early
    THEN /\ failing = {}
         /\ RespondFailed("asset_curve", a, 500, <<>>, {})
    ELSE /\ TradesOf(a) # <<>>
         /\ failing # {}
         /\ failing \subseteq {RelevantDates(a)[i] : i \in 1..Len(RelevantDates(a))}
         /\ LET first_trade_date == DateOf(TradesOf(a)[1].trade_time)
                kept == SelectSeq(RelevantDates(a), LAMBDA d : d \notin failing)
            IN  RespondFailed("asset_curve", a, 200,
                    <<StartPoint(a, first_trade_date)>>
                        \o [i \in 1..Len(kept) |-> CalendarPoint(a, kept[i])],
                    UNION {GapWarnings(a, kept[i]) : i \in 1..Len(kept)})

\* the helpers of ws.py when a query raises: except Exception returns 0.0
WsValueOnDateFailing(a, target_date, cash_fails, value_fails) ==
    /\ cash_fails \/ value_fails
    /\ RespondFailed("ws_value_on_date", a, 200,
           << [date |-> target_date,
               cash_changes |-> IF cash_fails THEN 0
                                ELSE WsCalculateCashChangesUpToDate(a, target_date),
               positions_value |-> IF value_fails THEN 0
                                   ELSE WsCalculatePositionsValueOnDate(a, target_date)] >>,
           {})

\* get_all_asset_curves_data_new when a query raises: except Exception
\* logs and returns []
GetAllAssetCurvesDataNewFailing == RespondFailed("calculator", 0, 200, <<>>, {})

\* get_all_asset_curves_data of ws.py when a query raises: returns []
WsGetAllAssetCurvesDataFailing == RespondFailed("ws", 0, 200, <<>>, {})

\* get_asset_curve_by_timeframe when a query raises: HTTP 500
GetAssetCurveByTimeframeFailing == RespondFailed("timeframe", 0, 500, <<>>, {})

NextFault ==
    \/ Tick
    \/ \E a \in Accounts, sym \in Symbols, side \in {"BUY", "SELL"}, qty \in Quantities :
          ExecuteTrade(a, sym, side, qty)
    \/ \E a \in Accounts, ok \in SUBSET Symbols : SavePositionPrices(a, ok)
    \/ \E a \in Accounts, early \in BOOLEAN, failing \in SUBSET Dates :
          GetAssetCurveFailing(a, early, failing)
    \/ \E a \in Accounts, d \in Dates, cash_fails, value_fails \in BOOLEAN :
          WsValueOnDateFailing(a, d, cash_fails, value_fails)
    \/ GetAllAssetCurvesDataNewFailing
    \/ WsGetAllAssetCurvesDataFailing
    \/ GetAssetCurveByTimeframeFailing
    \/ Return

SpecFault == Init /\ [][NextFault]_vars

\* ------------------------------------------------------ account lifecycle
\* the accounts of the user named "default"
DefaultAccounts == {1}

\* main.py on_startup: the trades (orders, positions) and the accounts of
\* every user other than "default" are deleted; the default account is
\* created when it is missing
OnStartup ==
    LET non_default == DOMAIN accounts \ DefaultAccounts
        capital == CHOOSE c \in InitialCapitals : TRUE
    IN  /\ pc = "idle"
        /\ trades' = SelectSeq(trades, LAMBDA tr : tr.account_id \notin non_default)
        /\ accounts' = [a \in DefaultAccounts |->
                            IF a \in DOMAIN accounts THEN accounts[a]
                            ELSE [initial_capital |-> capital, current_cash |-> capital,
                                  frozen_cash |-> 0]]
        /\ UNCHANGED <<now, prices, handler, runtime>>

\* DELETE /api/account/users/{user_id}: refused while the account has
\* positions; the row is deleted, its trades are left in place
DeleteUser(a) ==
    /\ pc = "idle"
    /\ a \in DOMAIN accounts
    /\ \A sym \in Symbols : Held(a, sym) = 0
    /\ accounts' = [b \in DOMAIN accounts \ {a} |-> accounts[b]]
    /\ UNCHANGED <<now, trades, prices, handler, runtime>>

\* POST /api/demo/reset: the cash is set back to the initial capital and
\* the frozen cash to 0; positions, orders and trades are left alone
ResetDemoAccount(a) ==
    /\ pc = "idle"
    /\ a \in DOMAIN accounts
    /\ accounts' = [accounts EXCEPT ![a].current_cash = accounts[a].initial_capital,
                                    ![a].frozen_cash = 0]
    /\ UNCHANGED <<now, trades, prices, handler, runtime>>

NextLifecycle ==
    \/ Tick
    \/ \E a \in DOMAIN accounts, sym \in Symbols, side \in {"BUY", "SELL"}, qty \in Quantities :
          ExecuteTrade(a, sym, side, qty)
    \/ OnStartup
    \/ \E a \in Accounts : DeleteUser(a)
    \/ \E a \in Accounts : ResetDemoAccount(a)

SpecLifecycle == Init /\ [][NextLifecycle]_vars

\* ------------------------------------------- concurrent calendar requests
\* one list for all calls instead of one per call
SharedList(r) == 1

\* curve_data = []: a local of the call, one list per request
Local(r) == r

\* the first statements of get_asset_curve, up to the loop over the dates
BeginAssetCurve(r, a) ==
    /\ requests[r].pc = "idle"
    /\ IF TradesOf(a) = <<>>
       THEN /\ curve_data' = [curve_data EXCEPT ![Local(r)] = NoTradeCurve(a)]
            /\ requests' = [requests EXCEPT ![r] =
                    [pc |-> "done", user_id |-> a, relevant_dates |-> <<>>, next |-> 0]]
       ELSE /\ curve_data' = [curve_data EXCEPT ![Local(r)] =
                    <<StartPoint(a, DateOf(TradesOf(a)[1].trade_time))>>]
            /\ requests' = [requests EXCEPT ![r] =
                    [pc |-> "loop", user_id |-> a, relevant_dates |-> RelevantDates(a),
                     next |-> 1]]
    /\ UNCHANGED <<db, handler, connections, sent, lookup_failed, services>>

\* one pass of for target_date in relevant_dates, or the return after it
StepAssetCurve(r) ==
    LET rq == requests[r]
    IN  /\ rq.pc = "loop"
        /\ IF rq.next <= Len(rq.relevant_dates)
           THEN /\ curve_data' = [curve_data EXCEPT ![Local(r)] =
                        Append(@, CalendarPoint(rq.user_id, rq.relevant_dates[rq.next]))]
                /\ requests' = [requests EXCEPT ![r].next = @ + 1]
           ELSE /\ requests' = [requests EXCEPT ![r].pc = "done"]
                /\ UNCHANGED curve_data
        /\ UNCHANGED <<db, handler, connections, sent, lookup_failed, services>>

\* return curve_data
Returned(r) == curve_data[Local(r)]

\* the response has been sent and the call's locals are dropped
EndAssetCurve(r) ==
    /\ requests[r].pc = "done"
    /\ requests' = [requests EXCEPT ![r] = IdleRequest]
    /\ curve_data' = [curve_data EXCEPT ![Local(r)] = <<>>]
    /\ UNCHANGED <<db, handler, connections, sent, lookup_failed, services>>

\* no call is running: the stored data changes only between computations
Quiet == \A r \in Requests : requests[r].pc = "idle"

NextConcurrent ==
    \/ Quiet /\ Tick
    \/ \E a \in Accounts, sym \in Symbols, side \in {"BUY", "SELL"}, qty \in Quantities :
          Quiet /\ ExecuteTrade(a, sym, side, qty)
    \/ \E a \in Accounts, ok \in SUBSET Symbols : Quiet /\ SavePositionPrices(a, ok)
    \/ \E r \in Requests, a \in Accounts : BeginAssetCurve(r, a)
    \/ \E r \in Requests : StepAssetCurve(r)
    \/ \E r \in Requests : EndAssetCurve(r)

SpecConcurrent == Init /\ [][NextConcurrent]_vars

\* ------------------------------------------- connections and snapshot jobs
HasJob(js, a) == \E i \in 1..Len(js) : js[i] = a

\* the job added without looking for an existing one
AddJobUnchecked(js, started, a) ==
    Append(IF started THEN js ELSE <<>>, a)

\* TaskScheduler.add_account_snapshot_task: the scheduler is started when
\* it is not running; an existing job snapshot_account_<id> is kept
AddAccountSnapshotTask(js, started, a) ==
    LET running == IF started THEN js ELSE <<>>
    IN  IF HasJob(running, a) THEN running ELSE Append(running, a)

\* TaskScheduler.remove_account_snapshot_task: nothing without a scheduler;
\* remove_job of a missing job raises and is caught
RemoveAccountSnapshotTask(js, started, a) ==
    IF ~started THEN js ELSE SelectSeq(js, LAMBDA j : j # a)

\* ConnectionManager.register
Register(a, w) ==
    /\ active_connections' =
           IF a \in DOMAIN active_connections
           THEN [active_connections EXCEPT ![a] = @ \cup {w}]
           ELSE active_connections @@ (a :> {w})
    /\ jobs' = AddAccountSnapshotTask(jobs, scheduler_started, a)
    /\ scheduler_started' = TRUE
    /\ UNCHANGED <<db, handler, requests, curve_data, sent, lookup_failed, services>>

\* ConnectionManager.unregister
Unregister(a, w) ==
    /\ IF a \in DOMAIN active_connections
       THEN IF active_connections[a] \ {w} = {}
            THEN /\ active_connections' =
                        [b \in DOMAIN active_connections \ {a} |-> active_connections[b]]
                 /\ jobs' = RemoveAccountSnapshotTask(jobs, scheduler_started, a)
            ELSE /\ active_connections' = [active_connections EXCEPT ![a] = @ \ {w}]
                 /\ UNCHANGED jobs
       ELSE UNCHANGED <<active_connections, jobs>>
    /\ UNCHANGED <<db, handler, requests, curve_data, scheduler_started, sent, lookup_failed, services>>

NextConnections ==
    \/ \E a \in Accounts, w \in WebSockets : Register(a, w)
    \/ \E a \in Accounts, w \in WebSockets : Unregister(a, w)

SpecConnections == Init /\ [][NextConnections]_vars

\* services.asset_calculator.calc_positions_value: a position whose price
\* lookup raises (not in value_ok) is skipped
CalcPositionsValue(a, value_ok) ==
    SumOver(value_ok, [sym \in value_ok |-> LastPrice(sym, now) * Held(a, sym)])

\* _send_snapshot: the overview and the positions enriched with the last
\* price; a position whose lookup raises (not in listing_ok) gets None, an
\* optional value being the empty set or a singleton.  The orders, trades,
\* decisions and curves of the message are read-only copies left out here.
SnapshotMessage(a, value_ok, listing_ok) ==
    LET positions == {sym \in Symbols : Held(a, sym) > 0}
        positions_value == CalcPositionsValue(a, value_ok)
    IN  [type |-> "snapshot",
         account_id |-> a,
         current_cash |-> accounts[a].current_cash,
         total_assets |-> positions_value + accounts[a].current_cash,
         positions_value |-> positions_value,
         positions |->
            {[symbol |-> sym, quantity |-> Held(a, sym),
              last_price |-> IF sym \in listing_ok THEN {LastPrice(sym, now)} ELSE {},
              market_value |-> IF sym \in listing_ok
                               THEN {LastPrice(sym, now) * Held(a, sym)} ELSE {}]
             : sym \in positions}]

\* TaskScheduler._execute_account_snapshot up to the end of await
\* _send_snapshot, for the job of account a: without connections the job
\* removes itself and returns; otherwise the snapshot is built and sent
\* (send_to_account discards the sockets whose send raises).  value_ok and
\* listing_ok are the positions whose get_last_price succeeds in
\* calc_positions_value and in the enrichment loop.
ExecuteAccountSnapshot(a, value_ok, listing_ok, broken) ==
    LET positions == {sym \in Symbols : Held(a, sym) > 0}
    IN  /\ pc = "idle"
        /\ sent = NoSnapshot
        /\ HasJob(jobs, a)
        /\ IF a \notin DOMAIN active_connections
           THEN /\ value_ok = {} /\ listing_ok = {} /\ broken = {}
                /\ jobs' = RemoveAccountSnapshotTask(jobs, scheduler_started, a)
                /\ UNCHANGED <<active_connections, sent, lookup_failed>>
           ELSE /\ value_ok \subseteq positions
                /\ listing_ok \subseteq positions
                /\ broken \subseteq active_connections[a]
                /\ sent' = SnapshotMessage(a, value_ok, listing_ok)
                               @@ [to |-> active_connections[a] \ broken]
                /\ lookup_failed' = (positions \ value_ok) \cup (positions \ listing_ok)
                /\ active_connections' = [active_connections EXCEPT ![a] = @ \ broken]
                /\ UNCHANGED jobs
        /\ UNCHANGED <<db, handler, requests, curve_data, scheduler_started, services>>

\* the rest of the job once the snapshot has gone out: await
\* _save_position_prices for the same account (ok: the positions whose
\* get_last_price succeeds), then the job's locals are dropped
FinishAccountSnapshot(ok) ==
    LET a == sent.account_id
        positions == {sym \in Symbols : Held(a, sym) > 0}
        today == DateOf(now)
        existing(sym) == \E p \in prices : p.symbol = sym /\ p.price_date = today
        saved == {sym \in positions : ~existing(sym) /\ sym \in ok}
    IN  /\ sent # NoSnapshot
        /\ ok \subseteq positions
        /\ prices' = prices \cup {[symbol |-> sym, price |-> LastPrice(sym, now),
                                   price_date |-> today] : sym \in saved}
        /\ sent' = NoSnapshot
        /\ lookup_failed' = {}
        /\ UNCHANGED <<now, accounts, trades, handler, requests, curve_data, connections, services>>

\* one client per account connects; trades and the clock go on between the
\* runs of the jobs
NextSnapshot ==
    \/ sent = NoSnapshot /\ Tick
    \/ \E a \in Accounts, sym \in Symbols, side \in {"BUY", "SELL"}, qty \in Quantities :
          sent = NoSnapshot /\ ExecuteTrade(a, sym, side, qty)
    \/ \E a \in Accounts : sent = NoSnapshot /\ Register(a, 1)
    \/ \E a \in Accounts : sent = NoSnapshot /\ Unregister(a, 1)
    \/ \E a \in Accounts, value_ok, listing_ok \in SUBSET Symbols, broken \in SUBSET {1} :
          ExecuteAccountSnapshot(a, value_ok, listing_ok, broken)
    \/ \E ok \in SUBSET Symbols : FinishAccountSnapshot(ok)

SpecSnapshot == Init /\ [][NextSnapshot]_vars

\* ------------------------------------------------------ websocket endpoint
\* the ConnectionManager and the scheduler as one value, for the handlers
\* that call register, unregister and send_to_account one after another
Manager == [ac |-> active_connections, js |-> jobs, started |-> scheduler_started]

\* ConnectionManager.register on a manager value
Registered(m, a, w) ==
    [ac |-> IF a \in DOMAIN m.ac THEN [m.ac EXCEPT ![a] = @ \cup {w}]
            ELSE m.ac @@ (a :> {w}),
     js |-> AddAccountSnapshotTask(m.js, m.started, a),
     started |-> TRUE]

\* ConnectionManager.unregister on a manager value; None (0) is skipped by
\* the callers' "is not None" tests
Unregistered(m, a, w) ==
    IF a = 0 \/ a \notin DOMAIN m.ac THEN m
    ELSE IF m.ac[a] \ {w} = {}
         THEN [m EXCEPT !.ac = [b \in DOMAIN m.ac \ {a} |-> m.ac[b]],
                        !.js = RemoveAccountSnapshotTask(m.js, m.started, a)]
         ELSE [m EXCEPT !.ac[a] = @ \ {w}]

\* ConnectionManager.send_to_account: the sockets whose send raises are
\* discarded from the account's set
SentToAccount(m, a, broken) ==
    IF a \notin DOMAIN m.ac THEN m ELSE [m EXCEPT !.ac[a] = @ \ broken]

\* the manager value written back; the endpoint touches nothing else
StoreManager(m) ==
    /\ active_connections' = m.ac
    /\ jobs' = m.js
    /\ scheduler_started' = m.started
    /\ UNCHANGED <<db, handler, requests, curve_data, sent, lookup_failed, price_cache, ai_call, ai_trading, order_route>>

\* websocket_endpoint up to the loop: accept, account_id = user_id = None
Accept(w) ==
    /\ endpoint[w].state = "none"
    /\ endpoint' = [endpoint EXCEPT ![w].state = "open"]
    /\ UNCHANGED <<core, price_cache, ai_call, ai_trading, order_route>>

\* kind == "bootstrap": account_id is overwritten and the socket registered
\* for it; the confirmation and the snapshot go out through send_to_account
Bootstrap(w, a, broken) ==
    /\ endpoint[w].state = "open"
    /\ endpoint' = [endpoint EXCEPT ![w].account_id = a]
    /\ StoreManager(SentToAccount(Registered(Manager, a, w), a, broken))

\* kind == "subscribe": an unknown user id (found = FALSE) changes nothing;
\* otherwise user_id is overwritten and the socket registered for it
Subscribe(w, uid, found, broken) ==
    /\ endpoint[w].state = "open"
    /\ IF ~found
       THEN /\ broken = {}
            /\ UNCHANGED <<core, endpoint, price_cache, ai_call, ai_trading, order_route>>
       ELSE /\ endpoint' = [endpoint EXCEPT ![w].user_id = uid]
            /\ StoreManager(SentToAccount(Registered(Manager, uid, w), uid, broken))

\* the except/finally of websocket_endpoint: the socket is unregistered from
\* the current account_id and the current user_id
Cleanup(m, w) ==
    Unregistered(Unregistered(m, endpoint[w].account_id, w), endpoint[w].user_id, w)

\* kind == "switch_user": the socket leaves the current user_id, is
\* registered for the target, and manager.send_to_user, which
\* ConnectionManager does not define, raises: the endpoint ends through
\* its finally with the new user_id
SwitchUser(w, target) ==
    /\ endpoint[w].state = "open"
    /\ endpoint' = [endpoint EXCEPT ![w].user_id = target, ![w].state = "closed"]
    /\ StoreManager(
          Unregistered(
             Unregistered(
                Registered(Unregistered(Manager, endpoint[w].user_id, w), target, w),
                endpoint[w].account_id, w),
             target, w))

\* kind == "switch_account": the socket leaves the current account_id; a
\* target that get_account does not find (found = FALSE) ends the message
\* there, account_id keeping its value
SwitchAccount(w, target, found, broken) ==
    LET left == Unregistered(Manager, endpoint[w].account_id, w)
    IN  /\ endpoint[w].state = "open"
        /\ IF ~found
           THEN /\ broken = {}
                /\ UNCHANGED endpoint
                /\ StoreManager(left)
           ELSE /\ endpoint' = [endpoint EXCEPT ![w].account_id = target]
                /\ StoreManager(SentToAccount(Registered(left, target, w), target, broken))

\* receive_text raises WebSocketDisconnect, or anything else leaves the
\* loop: the except and the finally clauses run
Terminate(w) ==
    /\ endpoint[w].state = "open"
    /\ endpoint' = [endpoint EXCEPT ![w].state = "closed"]
    /\ StoreManager(Cleanup(Manager, w))

\* the endpoints of two websockets run
NextEndpoint ==
    \/ \E w \in {1, 2} : Accept(w)
    \/ \E w \in {1, 2}, a \in Accounts, broken \in SUBSET {1, 2} :
          Bootstrap(w, a, broken)
    \/ \E w \in {1, 2}, uid \in Accounts, found \in BOOLEAN, broken \in SUBSET {1, 2} :
          Subscribe(w, uid, found, broken)
    \/ \E w \in {1, 2}, target \in Accounts : SwitchUser(w, target)
    \/ \E w \in {1, 2}, target \in Accounts, found \in BOOLEAN, broken \in SUBSET {1, 2} :
          SwitchAccount(w, target, found, broken)
    \/ \E w \in {1, 2} : Terminate(w)

SpecEndpoint == Init /\ [][NextEndpoint]_vars

\* -------------------------------------------------------------- price cache
\* PriceCache.ttl_seconds, in ticks of the clock
TtlSeconds == 2
MaxClock == 3
CachePrices == {1, 2}

\* time goes on between any two steps of the threads
ClockTick ==
    /\ clock < MaxClock
    /\ clock' = clock + 1
    /\ UNCHANGED <<core, endpoint, ai_call, ai_trading, order_route, cache, lock, threads, last_set>>

\* the threads run without a lock
LockAlwaysFree == TRUE

\* threading.Lock: free when no thread holds it
LockFree == lock = 0

\* the first statements of get, set and clear_expired: the key and
\* current_time = time.time(), before the lock is asked for
Call(t, op, k, p) ==
    /\ threads[t].pc = "idle"
    /\ threads' = [threads EXCEPT ![t] =
                      [pc |-> "lock", op |-> op, key |-> k, current_time |-> clock,
                       price |-> p, expired_keys |-> {}, result |-> {}]]
    /\ UNCHANGED <<core, endpoint, ai_call, ai_trading, order_route, clock, cache, lock, last_set>>

Get(t, k) == Call(t, "get", k, 0)

Set(t, k, p) == Call(t, "set", k, p)

ClearExpired(t) == Call(t, "clear_expired", "", 0)

\* with self.lock: the thread waits until the lock is free and takes it
Acquire(t) ==
    /\ threads[t].pc = "lock"
    /\ LockFree
    /\ lock' = t
    /\ threads' = [threads EXCEPT ![t].pc = "locked"]
    /\ UNCHANGED <<core, endpoint, ai_call, ai_trading, order_route, clock, cache, last_set>>

\* the with block is left and the method returns
Leave(t, returned) ==
    /\ lock' = 0
    /\ threads' = [threads EXCEPT ![t] = IdleThread(threads[t].op, returned)]

\* get inside the lock: a fresh entry is returned; an expired one is about
\* to be deleted; a missing key gives None
GetLookup(t) ==
    LET k == threads[t].key
    IN  /\ threads[t].pc = "locked" /\ threads[t].op = "get"
        /\ IF k \in DOMAIN cache
           THEN IF threads[t].current_time - cache[k].timestamp < TtlSeconds
                THEN Leave(t, {cache[k].price})
                ELSE /\ threads' = [threads EXCEPT ![t].pc = "delete"]
                     /\ UNCHANGED lock
           ELSE Leave(t, {})
        /\ UNCHANGED <<core, endpoint, ai_call, ai_trading, order_route, clock, cache, last_set>>

\* del self.cache[key] of get, then return None; a key that is gone raises
\* KeyError (written -1)
GetDelete(t) ==
    LET k == threads[t].key
    IN  /\ threads[t].pc = "delete" /\ threads[t].op = "get"
        /\ IF k \in DOMAIN cache
           THEN /\ cache' = [j \in DOMAIN cache \ {k} |-> cache[j]]
                /\ Leave(t, {})
           ELSE /\ UNCHANGED cache
                /\ Leave(t, {-1})
        /\ UNCHANGED <<core, endpoint, ai_call, ai_trading, order_route, clock, last_set>>

\* set inside the lock: the entry is written with the time read before
SetStore(t) ==
    LET k == threads[t].key
        entry == [price |-> threads[t].price, timestamp |-> threads[t].current_time]
    IN  /\ threads[t].pc = "locked" /\ threads[t].op = "set"
        /\ cache' = [j \in DOMAIN cache \cup {k} |-> IF j = k THEN entry ELSE cache[j]]
        /\ last_set' = [j \in DOMAIN last_set \cup {k} |->
                            IF j = k THEN entry ELSE last_set[j]]
        /\ Leave(t, {})
        /\ UNCHANGED <<core, endpoint, ai_call, ai_trading, order_route, clock>>

\* clear_expired inside the lock, first loop: the expired keys are collected
ClearCollect(t) ==
    /\ threads[t].pc = "locked" /\ threads[t].op = "clear_expired"
    /\ threads' = [threads EXCEPT
                      ![t].pc = "delete",
                      ![t].expired_keys =
                          {k \in DOMAIN cache :
                              threads[t].current_time - cache[k].timestamp >= TtlSeconds}]
    /\ UNCHANGED <<core, endpoint, ai_call, ai_trading, order_route, clock, cache, lock, last_set>>

\* clear_expired, second loop: the collected keys are deleted; a key that
\* is gone raises KeyError
ClearDelete(t) ==
    LET gone == threads[t].expired_keys
    IN  /\ threads[t].pc = "delete" /\ threads[t].op = "clear_expired"
        /\ IF gone \subseteq DOMAIN cache
           THEN /\ cache' = [j \in DOMAIN cache \ gone |-> cache[j]]
                /\ Leave(t, {})
           ELSE /\ cache' = [j \in DOMAIN cache \ gone |-> cache[j]]
                /\ Leave(t, {-1})
        /\ UNCHANGED <<core, endpoint, ai_call, ai_trading, order_route, clock, last_set>>

NextPriceCache ==
    \/ ClockTick
    \/ \E t \in Threads, k \in Symbols : Get(t, k)
    \/ \E t \in Threads, k \in Symbols, p \in CachePrices : Set(t, k, p)
    \/ \E t \in Threads : ClearExpired(t)
    \/ \E t \in Threads : Acquire(t)
    \/ \E t \in Threads : GetLookup(t)
    \/ \E t \in Threads : GetDelete(t)
    \/ \E t \in Threads : SetStore(t)
    \/ \E t \in Threads : ClearCollect(t)
    \/ \E t \in Threads : ClearDelete(t)

SpecPriceCache == Init /\ [][NextPriceCache]_vars

\* ------------------------------------------------------ call_ai_for_decision
\* DEMO_API_KEYS, None written "None"
DEMO_API_KEYS == {"default-key-please-update-in-settings", "default", "", "None"}

\* _is_default_api_key
IsDefaultApiKey(api_key) == api_key \in DEMO_API_KEYS

\* max_retries
MaxRetries == 3

\* what one requests.post can give: a status code, a RequestException or
\* any other exception
PostOutcomes == {"200", "429", "500", "RequestException", "Exception"}

\* what the body of a 200 response can be
Bodies == {"decision", "empty", "malformed", "not_a_dict", "no_choices"}

\* a failure of any kind is tried again
RetriesAnyFailure(outcome, attempt) ==
    outcome # "200" /\ attempt < MaxRetries - 1

\* the retry loop goes on: a 429 or a RequestException before the last attempt
Retries(outcome, attempt) ==
    outcome \in {"429", "RequestException"} /\ attempt < MaxRetries - 1

\* call_ai_for_decision up to the retry loop: a default key returns None at
\* once
CallAiForDecision(a, api_key) ==
    /\ ai_call.pc = "idle"
    /\ ai_call' = [NoCall EXCEPT !.pc = IF IsDefaultApiKey(api_key) THEN "done" ELSE "post",
                                 !.account_id = a, !.api_key = api_key]
    /\ UNCHANGED <<core, endpoint, price_cache, ai_trading, order_route>>

\* one pass of the retry loop: requests.post and what follows from its
\* outcome; a 200 leaves the loop and its body is parsed
PostAttempt(outcome, body) ==
    /\ ai_call.pc = "post"
    /\ body = "decision" \/ outcome = "200"
    /\ ai_call' =
          [ai_call EXCEPT
              !.posts = Append(@, outcome),
              !.pc = IF Retries(outcome, ai_call.attempt) THEN "sleep" ELSE "done",
              !.result = IF outcome = "200" /\ body = "decision" THEN "decision" ELSE "None"]
    /\ UNCHANGED <<core, endpoint, price_cache, ai_trading, order_route>>

\* time.sleep(wait_time), then continue with the next attempt
SleepAndContinue ==
    /\ ai_call.pc = "sleep"
    /\ ai_call' = [ai_call EXCEPT !.pc = "post", !.attempt = @ + 1, !.sleeps = @ + 1]
    /\ UNCHANGED <<core, endpoint, price_cache, ai_trading, order_route>>

\* the caller takes the returned value
AiCallReturned ==
    /\ ai_call.pc = "done"
    /\ ai_call' = NoCall
    /\ UNCHANGED <<core, endpoint, price_cache, ai_trading, order_route>>

NextAiCall ==
    \/ \E a \in Accounts, api_key \in DEMO_API_KEYS \cup {"sk-live"} :
          CallAiForDecision(a, api_key)
    \/ \E outcome \in PostOutcomes, body \in Bodies : PostAttempt(outcome, body)
    \/ SleepAndContinue
    \/ AiCallReturned

\* requests.post has a timeout and time.sleep ends: a running call goes on
SpecAiCall ==
    Init /\ [][NextAiCall]_vars
         /\ WF_vars(\E outcome \in PostOutcomes, body \in Bodies : PostAttempt(outcome, body))
         /\ WF_vars(SleepAndContinue)

\* -------------------------------------------- place_ai_driven_crypto_order
\* quantities and portions are counted in 1/QuantityScale: a position of 3
\* is 1.5 coins, a target_portion of 1 is 0.5
QuantityScale == 2
MaxOrders == 4

SUPPORTED_SYMBOLS == {"BTC", "ETH", "SOL", "DOGE", "XRP", "BNB"}

\* what the model answers: operations in either case and an unknown one,
\* symbols in either case and an unsupported one, portions 0, 0.5, 1, 1.5
\* and a value float() does not take (the empty set)
Decisions ==
    [operation : {"buy", "BUY", "sell", "hold", "short"},
     symbol : {"BTC", "eth", "ADA"},
     target_portion : {{}} \cup {{p} : p \in 0..(QuantityScale + 1)}]

\* str.lower and str.upper on these answers
Lower(str) == IF str = "BUY" THEN "buy" ELSE str
Upper(str) == IF str = "eth" THEN "ETH" ELSE str

\* n / d rounded to the nearest unit
RoundDiv(n, d) == (2 * n + d) \div (2 * d)

\* any portion is taken
AnyPortion(portion) == TRUE

\* the test "target_portion <= 0 or target_portion > 1" is passed
ValidPortion(portion) == portion > 0 /\ portion <= QuantityScale

\* round(float(Decimal(cash * target_portion) / Decimal(price)), 6), at the
\* model's precision
BuyQuantity(cash, portion, price) == RoundDiv(cash * portion, price)

\* available_quantity = int(position.available_quantity);
\* quantity = max(1, int(available_quantity * target_portion)), capped at
\* available_quantity
SellQuantity(available, portion) ==
    LET available_quantity == available \div QuantityScale
        wanted == (available_quantity * portion) \div QuantityScale
        quantity == IF wanted > 1 THEN wanted ELSE 1
    IN  QuantityScale * (IF quantity > available_quantity THEN available_quantity
                         ELSE quantity)

\* what an order costs or brings at the last price
OrderAmount(symbol, quantity) == (LastPrice(symbol, now) * quantity) \div QuantityScale

\* services.order_matching.create_order raises ValueError for a business
\* error: a BUY the cash does not cover
CreateOrderRaises(a, symbol, side, quantity) ==
    side = "BUY" /\ accounts[a].current_cash < OrderAmount(symbol, quantity) + 1

\* services.order_matching.check_and_execute_order filling the order: the
\* cash and the position after it, the commission being 1
Filled(a, symbol, side, quantity) ==
    [current_cash |-> IF side = "BUY"
                      THEN accounts[a].current_cash - (OrderAmount(symbol, quantity) + 1)
                      ELSE accounts[a].current_cash + (OrderAmount(symbol, quantity) - 1),
     available |-> IF side = "BUY" THEN position_rows[a][symbol] + quantity
                   ELSE position_rows[a][symbol] - quantity]

\* save_ai_decision(db, account, decision, portfolio, executed, order_id);
\* order_id None is written 0
SaveAiDecision(executed, order_id) == <<[executed |-> executed, order_id |-> order_id]>>

\* the body of the loop of place_ai_driven_crypto_order for a decision d of
\* account a: what was raised, the order created and the calls of
\* save_ai_decision
HandleDecision(a, d, known, executed) ==
    LET operation == Lower(d.operation)
        symbol == Upper(d.symbol)
        rejected == [raised |-> FALSE, order |-> {}, saves |-> SaveAiDecision(FALSE, 0)]
        raises == [raised |-> TRUE, order |-> {}, saves |-> <<>>]
    IN  IF d.target_portion = {} THEN raises
        ELSE
        LET portion == CHOOSE p \in d.target_portion : TRUE
        IN  IF operation \notin {"buy", "sell", "hold"} THEN rejected
            ELSE IF operation = "hold"
            THEN [raised |-> FALSE, order |-> {}, saves |-> SaveAiDecision(TRUE, 0)]
            ELSE IF symbol \notin SUPPORTED_SYMBOLS THEN rejected
            ELSE IF ~ValidPortion(portion) THEN rejected
            ELSE IF symbol \notin known THEN rejected
            ELSE
            LET side == IF operation = "buy" THEN "BUY" ELSE "SELL"
                quantity == IF operation = "buy"
                            THEN BuyQuantity(accounts[a].current_cash, portion,
                                             LastPrice(symbol, now))
                            ELSE SellQuantity(position_rows[a][symbol], portion)
            IN  IF operation = "buy" /\ quantity <= 0 THEN rejected
                ELSE IF operation = "sell" /\ position_rows[a][symbol] <= 0 THEN rejected
                ELSE IF CreateOrderRaises(a, symbol, side, quantity) THEN raises
                ELSE [raised |-> FALSE,
                      order |-> {[id |-> order_seq + 1, account_id |-> a,
                                  symbol |-> symbol, side |-> side,
                                  quantity |-> quantity,
                                  status |-> IF executed THEN "FILLED" ELSE "PENDING"]},
                      saves |-> SaveAiDecision(executed, order_seq + 1)]

\* _get_portfolio_data: total_assets
TotalAssets(a) ==
    accounts[a].current_cash
    + SumOver(Symbols, [sym \in Symbols |-> OrderAmount(sym, position_rows[a][sym])])

\* place_ai_driven_crypto_order up to its loop: the active AI accounts and
\* the symbols whose price was fetched; without accounts or without prices
\* the function returns at once
StartAiRun(active, known) ==
    /\ ai_run.pc = "idle"
    /\ active # {} /\ known # {}
    /\ order_seq + Cardinality(active) <= MaxOrders
    /\ ai_run' = [pc |-> "loop", accounts |-> Sorted(active), known |-> known, i |-> 1]
    /\ last_account' = NoAccount
    /\ UNCHANGED <<accounts, position_rows, order_seq, now, trades, prices, handler, requests, curve_data, connections,
                   sent, lookup_failed, endpoint, price_cache, ai_call, order_route>>

\* one pass of the loop: the account's portfolio, the decision that
\* call_ai_for_decision returns (None: the empty set), and what follows
ProcessAccount(answer, executed) ==
    LET a == ai_run.accounts[ai_run.i]
        d == CHOOSE x \in answer : TRUE
        out == IF answer = {} THEN [raised |-> FALSE, order |-> {}, saves |-> <<>>]
               ELSE HandleDecision(a, d, ai_run.known, executed)
        filled == out.order # {} /\ executed
    IN  /\ ai_run.pc = "loop"
        /\ ai_run.i <= Len(ai_run.accounts)
        /\ TotalAssets(a) <= 0 => answer = {}
        /\ executed => out.order # {}
        /\ last_account' =
              [account_id |-> a, decision |-> answer,
               available |-> IF answer # {} /\ Upper(d.symbol) \in Symbols
                             THEN position_rows[a][Upper(d.symbol)] ELSE 0,
               raised |-> out.raised, order |-> out.order, saves |-> out.saves]
        /\ order_seq' = order_seq + Cardinality(out.order)
        /\ IF filled
           THEN LET o == CHOOSE x \in out.order : TRUE
                    after == Filled(a, o.symbol, o.side, o.quantity)
                IN  /\ accounts' = [accounts EXCEPT ![a].current_cash = after.current_cash]
                    /\ position_rows' = [position_rows EXCEPT ![a][o.symbol] = after.available]
           ELSE UNCHANGED <<accounts, position_rows>>
        /\ ai_run' = [ai_run EXCEPT !.i = @ + 1]
        /\ UNCHANGED <<now, trades, prices, handler, requests, curve_data, connections,
                   sent, lookup_failed, endpoint, price_cache, ai_call, order_route>>

\* the loop is over and the session closed
EndAiRun ==
    /\ ai_run.pc = "loop"
    /\ ai_run.i > Len(ai_run.accounts)
    /\ ai_run' = NoRun
    /\ last_account' = NoAccount
    /\ UNCHANGED <<accounts, position_rows, order_seq, now, trades, prices, handler, requests, curve_data, connections,
                   sent, lookup_failed, endpoint, price_cache, ai_call, order_route>>

NextAiTrading ==
    \/ \E active \in SUBSET Accounts, known \in SUBSET Symbols : StartAiRun(active, known)
    \/ \E answer \in {{}} \cup {{d} : d \in Decisions}, executed \in BOOLEAN :
          ProcessAccount(answer, executed)
    \/ EndAiRun

SpecAiTrading == Init /\ [][NextAiTrading]_vars

\* ---------------------------------------------------- POST /api/orders/create
\* User.username of the users
Username(u) == IF u = 1 THEN "u1" ELSE "u2"

\* what the optional fields of OrderCreateRequest can carry, None being the
\* empty set; user 3 does not exist
OrderCreateRequests ==
    [user_id : Accounts \cup {3},
     session_token : {{}, {"t1"}, {"forged"}},
     username : {{}, {"u1"}, {"u2"}},
     password : {{}, {"abcd"}, {"ab  "}}]

\* the one value of an optional field that is given
The(optional) == CHOOSE x \in optional : TRUE

\* _hash_password: the SHA256 digest, told apart from the password itself
HashPassword(password) == <<"sha256", password>>

\* len(password.strip())
StrippedLen(password) == IF password = "ab  " THEN 2 ELSE 4

\* how long a session lasts, in ticks (180 days)
SessionTicks == 1

\* create_auth_session: the user's expired sessions are deleted and a
\* session with a fresh token is added
CreateAuthSession(u, token) ==
    /\ \A ses \in auth_sessions : ses.session_token # token
    /\ auth_sessions' =
          {ses \in auth_sessions : ~(ses.user_id = u /\ ses.expires_at <= now)}
          \cup {[session_token |-> token, user_id |-> u, expires_at |-> now + SessionTicks]}
    /\ UNCHANGED <<now, order_seq, passwords, response, accounts, trades, prices, handler, requests, curve_data,
                   connections, sent, lookup_failed, endpoint, price_cache, ai_call,
                   position_rows, ai_run, last_account>>

\* verify_auth_session: the user of an unexpired session with this token,
\* or None
VerifyAuthSession(token) ==
    {ses.user_id : ses \in {x \in auth_sessions :
                                x.session_token = token /\ x.expires_at > now}}

\* user_has_password
UserHasPassword(u) == passwords[u] # {}

\* verify_user_password
VerifyUserPassword(u, password) ==
    passwords[u] # {} /\ The(passwords[u]) = HashPassword(password)

\* the try block of create_new_order up to create_order: the HTTPException
\* raised (its status code), or 0 when authentication passed, and whether
\* the first-time password is set
Authenticate(rq) ==
    LET u == rq.user_id
        passed == [raised |-> 0, sets_password |-> FALSE]
        raise(code) == [raised |-> code, sets_password |-> FALSE]
    IN  IF u \notin Accounts THEN raise(404)
        ELSE IF rq.session_token # {}
        THEN IF VerifyAuthSession(The(rq.session_token)) # {u} THEN raise(401) ELSE passed
        ELSE IF rq.username # {} /\ rq.password # {}
        THEN IF Username(u) # The(rq.username) THEN raise(401)
             ELSE IF ~UserHasPassword(u)
             THEN IF StrippedLen(The(rq.password)) < 4 THEN raise(400)
                  ELSE [raised |-> 0, sets_password |-> TRUE]
             ELSE IF ~VerifyUserPassword(u, The(rq.password)) THEN raise(401)
             ELSE passed
        ELSE raise(400)

\* the except clauses of create_new_order: a ValueError becomes 400, and
\* any other exception, an HTTPException raised in the try block
\* included, is caught by "except Exception" and becomes 500
StatusOfException(is_value_error, code) ==
    IF is_value_error THEN 400 ELSE 500

\* create_new_order; order_raises: create_order raises ValueError
CreateNewOrder(rq, order_raises) ==
    LET auth == Authenticate(rq)
    IN  /\ order_seq < MaxOrders
        /\ auth.raised # 0 => ~order_raises
        /\ passwords' = IF auth.sets_password
                        THEN [passwords EXCEPT ![rq.user_id] =
                                 {HashPassword(The(rq.password))}]
                        ELSE passwords
        /\ IF auth.raised # 0
           THEN /\ response' = [status |-> StatusOfException(FALSE, auth.raised),
                                created |-> FALSE, request |-> rq]
                /\ UNCHANGED order_seq
           ELSE IF order_raises
           THEN /\ response' = [status |-> StatusOfException(TRUE, 0),
                                created |-> FALSE, request |-> rq]
                /\ UNCHANGED order_seq
           ELSE /\ response' = [status |-> 200, created |-> TRUE, request |-> rq]
                /\ order_seq' = order_seq + 1
        /\ UNCHANGED <<now, auth_sessions, accounts, trades, prices, handler, requests, curve_data,
                   connections, sent, lookup_failed, endpoint, price_cache, ai_call,
                   position_rows, ai_run, last_account>>

NextOrderRoute ==
    \/ Tick
    \/ \E u \in Accounts, token \in {"t1", "t2"} : CreateAuthSession(u, token)
    \/ \E rq \in OrderCreateRequests, order_raises \in BOOLEAN : CreateNewOrder(rq, order_raises)

SpecOrderRoute == Init /\ [][NextOrderRoute]_vars

\* ------------------------------------------------------------ properties
CalendarOps == {"asset_curve", "all_asset_curves"}
TimeframeOps == {"calculator", "ws", "timeframe"}

\* a response whose points were replayed from the trade log
CalendarDone == pc = "done" /\ req.op \in CalendarOps
TimelineDone == pc = "done" /\ req.op \in TimeframeOps /\ first_klines # <<>>
FallbackDone == pc = "done" /\ req.op \in TimeframeOps /\ first_klines = <<>>
HelperDone == pc = "done" /\ req.op = "ws_value_on_date"

Points == {result[i] : i \in 1..Len(result)}

\* the account a point of the response belongs to
PointAccount(p) ==
    CASE req.op \in {"asset_curve", "ws_value_on_date"} -> req.user_id
      [] req.op \in {"all_asset_curves", "timeframe"} -> p.user_id
      [] req.op = "calculator" -> p.account_id
      [] req.op = "ws" -> p.username

\* the rows of the trade log at or before the cutoff of a point
CutoffRows(p) ==
    {i \in 1..Len(trades) :
        /\ trades[i].account_id = PointAccount(p)
        /\ IF req.op \in TimeframeOps THEN trades[i].trade_time <= p.timestamp
           ELSE DateOf(trades[i].trade_time) <= p.date}

SignedCashImpact(tr) ==
    IF tr.side = "BUY" THEN 0 - (tr.price * tr.quantity + tr.commission)
    ELSE tr.price * tr.quantity - tr.commission

SumRows(rows, f(_)) == SumOver(rows, [i \in rows |-> f(trades[i])])

\* sum of the BUY quantities minus sum of the SELL quantities of a symbol
NetQuantity(rows, sym) ==
    LET buys == {i \in rows : trades[i].symbol = sym /\ trades[i].side = "BUY"}
        sells == {i \in rows : trades[i].symbol = sym /\ trades[i].side = "SELL"}
        qty(tr) == tr.quantity
    IN  SumRows(buys, qty) - SumRows(sells, qty)

\* the unit price a point values a symbol at; 0 when there is none
UnitPrice(p, sym) ==
    IF req.op \in TimeframeOps
    THEN LET j == CHOOSE k \in 1..Len(first_klines) : first_klines[k].timestamp = p.timestamp
         IN  IF sym \in DOMAIN symbol_klines /\ j <= Len(symbol_klines[sym])
             THEN symbol_klines[sym][j].close ELSE 0
    ELSE IF PricesUpTo(sym, p.date) = {} THEN 0 ELSE LatestPrice(sym, p.date).price

\* C1: in every replay (calendar, timeframe, WebSocket, calculator) the cash
\* of a point is initial_capital plus the signed cash impact of the trades
\* up to its cutoff: BUY -(price*quantity + commission),
\* SELL +(price*quantity - commission).
C1_CashIsSignedSum ==
    (CalendarDone \/ TimelineDone) =>
        \A p \in Points :
            p.cash = accounts[PointAccount(p)].initial_capital
                     + SumRows(CutoffRows(p), SignedCashImpact)

\* C2: positions_value counts exactly the symbols whose net quantity (BUY
\* quantities minus SELL quantities up to the cutoff) is strictly positive,
\* each at its unit price times that net quantity; the others count 0.
C2_OnlyPositiveNetValued ==
    (CalendarDone \/ TimelineDone \/ HelperDone) =>
        \A p \in Points :
            LET rows == CutoffRows(p)
                held == {sym \in Symbols : NetQuantity(rows, sym) > 0}
            IN  p.positions_value =
                    SumOver(held, [sym \in held |-> UnitPrice(p, sym) * NetQuantity(rows, sym)])

\* a point valued above 0 after a SELL reduced the position it values
C2_Witness ==
    /\ CalendarDone \/ TimelineDone \/ HelperDone
    /\ \E p \in Points :
          /\ p.positions_value > 0
          /\ \E i \in CutoffRows(p) : trades[i].side = "SELL"

\* C4: every point of every curve and fallback has
\* total_assets = cash + positions_value.
C4_TotalIsCashPlusPositions ==
    (pc = "done" /\ req.op \in CalendarOps \cup TimeframeOps) =>
        \A p \in Points : p.total_assets = p.cash + p.positions_value

\* the PricePoint of a symbol with the greatest price_date <= T, if any
GreatestDated(sym, T) ==
    {pp \in prices :
        /\ pp.symbol = sym
        /\ pp.price_date <= T
        /\ \A q \in prices : (q.symbol = sym /\ q.price_date <= T) => q.price_date <= pp.price_date}

DatedValue(rows, sym, T) ==
    SumOver(GreatestDated(sym, T),
            [pp \in GreatestDated(sym, T) |-> pp.price * NetQuantity(rows, sym)])

\* C3: in the calendar valuation at date T every held symbol is priced at
\* the PricePoint with the greatest price_date <= T, never a later one, and
\* positions_value is the sum of price * net quantity over the held symbols.
C3_LatestPriceAtOrBefore ==
    (CalendarDone \/ HelperDone) =>
        \A p \in Points :
            LET rows == CutoffRows(p)
                held == {sym \in Symbols : NetQuantity(rows, sym) > 0}
            IN  p.positions_value =
                    SumOver(held, [sym \in held |-> DatedValue(rows, sym, p.date)])

\* BUY 2 ETH @ 50, ETH = 60 on the cutoff date and a later PricePoint:
\* positions_value = 120, cash_delta = -(100 + commission)
C3_Witness ==
    /\ CalendarDone
    /\ \E p \in Points :
          /\ p.positions_value = 120
          /\ p.cash = accounts[PointAccount(p)].initial_capital - 101
          /\ \E pp \in prices : pp.symbol = "ETH" /\ pp.price_date > p.date
          /\ \E pp \in prices : pp.symbol = "ETH" /\ pp.price_date = p.date /\ pp.price = 60

\* C5: a held symbol without a PricePoint at or before the cutoff counts 0,
\* a warning is recorded for the gap and the request succeeds with the point.
C5_GapWarnedAndSkipped ==
    (CalendarDone \/ HelperDone) =>
        /\ status = 200
        /\ \A p \in Points :
              LET rows == CutoffRows(p)
                  held == {sym \in Symbols : NetQuantity(rows, sym) > 0}
                  priced == {sym \in held : GreatestDated(sym, p.date) # {}}
              IN  /\ p.positions_value =
                        SumOver(priced, [sym \in priced |-> DatedValue(rows, sym, p.date)])
                  /\ \A sym \in held \ priced : <<PointAccount(p), sym, p.date>> \in warnings

\* C6: every point of an account without trades has cash = initial_capital
\* (cash_delta 0), positions_value = 0 and total_assets = initial_capital.
C6_NoTradesInitialCapital ==
    (pc = "done" /\ req.op \in CalendarOps \cup TimeframeOps) =>
        \A p \in Points :
            (\A i \in 1..Len(trades) : trades[i].account_id # PointAccount(p)) =>
                /\ p.cash = accounts[PointAccount(p)].initial_capital
                /\ p.positions_value = 0
                /\ p.total_assets = accounts[PointAccount(p)].initial_capital

\* a timeline over real bars holding the points of an account that never
\* traded, next to an account that did
C6_Witness ==
    /\ TimelineDone
    /\ Len(first_klines) > 1
    /\ \E p \in Points : \A i \in 1..Len(trades) : trades[i].account_id # PointAccount(p)

\* the calendar curve of one account within the response
CurveOf(a) ==
    IF req.op = "asset_curve" THEN result
    ELSE SelectSeq(result, LAMBDA p : p.user_id = a)

\* the accounts a calendar response holds a replayed curve of
Replayed(a) ==
    /\ req.op = "asset_curve" => req.user_id = a
    /\ \E i \in 1..Len(trades) : trades[i].account_id = a

TradeDates(a) == {DateOf(trades[i].trade_time) : i \in {j \in 1..Len(trades) : trades[j].account_id = a}}

FirstTradeDate(a) == CHOOSE d \in TradeDates(a) : \A e \in TradeDates(a) : d <= e

\* C7: the first entry of an account's calendar curve is dated one day
\* before its first trade date D, is flagged is_initial and is worth exactly
\* the initial capital in cash; every later entry is dated >= D.
C7_LeadingPoint ==
    CalendarDone =>
        \A a \in Accounts : Replayed(a) =>
            LET c == CurveOf(a)
            IN  /\ Len(c) >= 1
                /\ c[1].date = FirstTradeDate(a) - 1
                /\ c[1].is_initial
                /\ c[1].total_assets = accounts[a].initial_capital
                /\ c[1].cash = accounts[a].initial_capital
                /\ c[1].positions_value = 0
                /\ \A i \in 2..Len(c) : c[i].date >= FirstTradeDate(a) /\ ~c[i].is_initial

\* a curve starting on day 1 while a PricePoint of day 0 exists
C7_Witness ==
    /\ CalendarDone
    /\ \E a \in Accounts :
          /\ Replayed(a)
          /\ FirstTradeDate(a) = 1
          /\ Len(CurveOf(a)) >= 2
          /\ \E pp \in prices : pp.price_date < FirstTradeDate(a)

FoldedInto(p) ==
    IF req.op \in TimeframeOps THEN TradesUpToTs(PointAccount(p), p.timestamp)
    ELSE TradesUpToDate(PointAccount(p), p.date)

Cutoff(p) == IF req.op \in TimeframeOps THEN p.timestamp ELSE p.date

\* the trade log of one account, in insertion order
AccountLog(a) == SelectSeq(trades, LAMBDA tr : tr.account_id = a)

IsPrefixOf(s, t) == Len(s) <= Len(t) /\ s = SubSeq(t, 1, Len(s))

Ids(seq) == {seq[i].id : i \in 1..Len(seq)}

\* C9: on one timeline the trades folded into the point at T1 are a subset
\* of those folded into the point at T2 > T1, and both are prefixes of the
\* account's trades in trade_time order.
C9_MonotonicPrefixes ==
    (CalendarDone \/ TimelineDone) =>
        \A p1, p2 \in Points :
            (PointAccount(p1) = PointAccount(p2) /\ Cutoff(p1) < Cutoff(p2)) =>
                LET log == AccountLog(PointAccount(p1))
                IN  /\ \A i, j \in 1..Len(log) : i < j => log[i].trade_time <= log[j].trade_time
                    /\ Ids(FoldedInto(p1)) \subseteq Ids(FoldedInto(p2))
                    /\ IsPrefixOf(FoldedInto(p1), log)
                    /\ IsPrefixOf(FoldedInto(p2), log)

\* two points of one account, the earlier with one trade folded, the later with two
C9_Witness ==
    /\ TimelineDone
    /\ \E p1, p2 \in Points :
          /\ PointAccount(p1) = PointAccount(p2)
          /\ Cutoff(p1) < Cutoff(p2)
          /\ Len(FoldedInto(p1)) = 1
          /\ Len(FoldedInto(p2)) = 2

\* continuing a fold from an accumulator
RECURSIVE CashFoldFrom(_, _)
CashFoldFrom(acc, seq) ==
    IF seq = <<>> THEN acc ELSE CashStep(CashFoldFrom(acc, Front(seq)), Last(seq))

RECURSIVE QuantityFoldFrom(_, _)
QuantityFoldFrom(acc, seq) ==
    IF seq = <<>> THEN acc ELSE QuantityStep(QuantityFoldFrom(acc, Front(seq)), Last(seq))

\* folding a log in two chunks, split anywhere, equals folding it at once
ChunkedFoldAgrees(log) ==
    \A k \in 0..Len(log) :
        LET head == SubSeq(log, 1, k)
            tail == SubSeq(log, k + 1, Len(log))
        IN  /\ CashFoldFrom(CashFold(head), tail) = CashFold(log)
            /\ QuantityFoldFrom(QuantityFold(head), tail) = QuantityFold(log)

\* the single incremental accumulator: it walks the log once, taking the
\* trades up to each cutoff as the timeline advances
TimeKey(tr, byDate) == IF byDate THEN DateOf(tr.trade_time) ELSE tr.trade_time

RECURSIVE Advance(_, _, _, _)
Advance(st, log, cutoff, byDate) ==
    IF st.next <= Len(log) /\ TimeKey(log[st.next], byDate) <= cutoff
    THEN Advance([next |-> st.next + 1,
                  cash |-> CashStep(st.cash, log[st.next]),
                  pq |-> QuantityStep(st.pq, log[st.next])], log, cutoff, byDate)
    ELSE st

RECURSIVE Walk(_, _, _, _)
Walk(cutoffs, i, log, byDate) ==
    IF i = 0 THEN [next |-> 1, cash |-> 0, pq |-> <<>>]
    ELSE Advance(Walk(cutoffs, i - 1, log, byDate), log, cutoffs[i], byDate)

\* the points of one account within a timeframe response, in timeline order
TimelineOf(a) == SelectSeq(result, LAMBDA p : PointAccount(p) = a)

IncrementalTimelineAgrees(a) ==
    LET c == TimelineOf(a)
        cutoffs == Timestamps(first_klines)
    IN  /\ Len(c) = Len(cutoffs)
        /\ \A i \in 1..Len(c) :
              LET st == Walk(cutoffs, i, AccountLog(a), FALSE)
                  value == SumOver(DOMAIN st.pq,
                               [sym \in DOMAIN st.pq |-> BarValue(symbol_klines, sym, i, st.pq[sym])])
              IN  /\ c[i].timestamp = cutoffs[i]
                  /\ c[i].cash = accounts[a].initial_capital + st.cash
                  /\ c[i].positions_value = value
                  /\ c[i].total_assets = accounts[a].initial_capital + st.cash + value

IncrementalCalendarAgrees(a) ==
    LET c == CurveOf(a)
        cutoffs == [i \in 1..Len(c) - 1 |-> c[i + 1].date]
    IN  \A i \in 1..Len(cutoffs) :
            LET st == Walk(cutoffs, i, AccountLog(a), TRUE)
                valued == ValuedOnDate(st.pq, cutoffs[i])
                value == SumOver(valued,
                             [sym \in valued |-> LatestPrice(sym, cutoffs[i]).price * st.pq[sym]])
            IN  /\ c[i + 1].cash = accounts[a].initial_capital + st.cash
                /\ c[i + 1].positions_value = value
                /\ c[i + 1].total_assets = accounts[a].initial_capital + st.cash + value

\* C10: replaying the log up to a cutoff equals accumulating it in chunks,
\* and one incremental accumulator walking the log once along the sorted
\* timeline gives at every point the cash, positions_value and total_assets
\* of the per-point full replay.
C10_IncrementalEqualsReplay ==
    /\ TimelineDone =>
          \A a \in Accounts : ChunkedFoldAgrees(AccountLog(a)) /\ IncrementalTimelineAgrees(a)
    /\ CalendarDone =>
          \A a \in Accounts : Replayed(a) =>
              ChunkedFoldAgrees(AccountLog(a)) /\ IncrementalCalendarAgrees(a)

\* a two-bar timeline whose second bar takes a trade the first does not,
\* leaving a position that is valued
C10_Witness ==
    /\ TimelineDone
    /\ Len(first_klines) = 2
    /\ \E a \in Accounts :
          /\ \E i \in 1..Len(trades) :
                trades[i].account_id = a /\ trades[i].trade_time <= first_klines[1].timestamp
          /\ \E i \in 1..Len(trades) :
                /\ trades[i].account_id = a
                /\ trades[i].trade_time > first_klines[1].timestamp
                /\ trades[i].trade_time <= first_klines[2].timestamp
          /\ Len(TimelineOf(a)) = 2
          /\ TimelineOf(a)[2].positions_value > 0

\* a response of one point per account, timestamped now, built from the
\* account's live balances
LiveSnapshotPerAccount ==
    /\ Len(result) = Cardinality(Accounts)
    /\ \A a \in Accounts : \E i \in 1..Len(result) : PointAccount(result[i]) = a
    /\ \A p \in Points :
          /\ p.timestamp = now
          /\ p.cash = accounts[PointAccount(p)].current_cash
          /\ p.total_assets = accounts[PointAccount(p)].initial_capital
          /\ p.positions_value = 0

C12_NoBarsLiveSnapshot ==
    (pc = "done" /\ req.op \in TimeframeOps /\ UniqueSymbols # {} /\ DOMAIN symbol_klines = {}) =>
        status = 200 /\ LiveSnapshotPerAccount

\* C13: a storage-layer failure while reading trades or prices aborts the
\* curve computation and reaches the caller as a service error; no
\* substitute result (0.0, a skipped date, an empty curve) is returned.
C13_StorageFailurePropagates ==
    (pc = "done" /\ storage_failed) => (status = 500 /\ result = <<>>)

\* C14: in a timeframe batch response with market data the cutoff axis is
\* the timestamp list of one reference symbol's series (at most MaxBars
\* bars) and every account, with or without trades, has exactly one point
\* for each cutoff timestamp and no point for any other timestamp.
C14_SharedCutoffAxis ==
    TimelineDone =>
        /\ \E sym \in DOMAIN symbol_klines : symbol_klines[sym] = first_klines
        /\ Len(first_klines) <= MaxBars
        /\ \A i, j \in 1..Len(first_klines) :
              i # j => first_klines[i].timestamp # first_klines[j].timestamp
        /\ \A a \in Accounts :
              LET c == TimelineOf(a)
              IN  /\ Len(c) = Len(first_klines)
                  /\ \A i \in 1..Len(c) : c[i].timestamp = first_klines[i].timestamp

\* two fetched series of different lengths, an account that traded and one
\* that did not, on a full reference series
C14_Witness ==
    /\ TimelineDone
    /\ Len(first_klines) = MaxBars
    /\ \E sym \in DOMAIN symbol_klines : Len(symbol_klines[sym]) < MaxBars
    /\ \E a \in Accounts : TradesOf(a) = <<>>
    /\ \E a \in Accounts : TradesOf(a) # <<>>

\* a second computation of the request on the data as it is stored now
Recomputed ==
    LET accs == Sorted(Accounts)
        ts == Timestamps(first_klines)
    IN  CASE req.op = "asset_curve" -> UserCurve(req.user_id)
          [] req.op = "all_asset_curves" -> AllUsersCurve(accs)
          [] req.op = "calculator" /\ first_klines = <<>> -> NowPoints(accs, "account_id", FALSE)
          [] req.op = "calculator" /\ first_klines # <<>> ->
                SortByTimestampAccount(AllTimelines(accs, ts, symbol_klines, "account_id"))
          [] req.op = "ws" /\ first_klines = <<>> -> NowPoints(accs, "username", TRUE)
          [] req.op = "ws" /\ first_klines # <<>> -> AllTimelines(accs, ts, symbol_klines, "username")
          [] req.op = "timeframe" /\ first_klines = <<>> -> NowPoints(accs, "user_id", TRUE)
          [] req.op = "timeframe" /\ first_klines # <<>> ->
                AllTimelines(accs, ts, symbol_klines, "user_id")

C16_TradeLogOnlyGrows ==
    [][/\ Len(trades') >= Len(trades)
       /\ SubSeq(trades', 1, Len(trades)) = trades]_vars

\* C17: after any interleaving of the snapshot jobs' price saving (jobs of
\* different accounts holding the same symbol included) there is at most
\* one PricePoint per (symbol, date), and a job that finds today's
\* PricePoint of a symbol writes nothing for that symbol.
C17_OnePricePerSymbolAndDay ==
    /\ [](\A p, q \in prices :
             (p.symbol = q.symbol /\ p.price_date = q.price_date) => p = q)
    /\ [][\A p \in prices' \ prices :
             ~ \E q \in prices : q.symbol = p.symbol /\ q.price_date = p.price_date]_vars

\* two accounts hold the same symbol, its PricePoint of today is stored and
\* the market has moved since: a job running now would fetch another price
C17_Witness ==
    /\ \A a \in Accounts : Held(a, "BTC") > 0
    /\ \E p \in prices :
          /\ p.symbol = "BTC"
          /\ p.price_date = DateOf(now)
          /\ p.price # LastPrice("BTC", now)

\* C18: two curve computations for the same account that run concurrently,
\* interleaved in any way, each return the curve a computation running
\* alone returns on the same stored data.
C18_ConcurrentEqualsAlone ==
    \A r \in Requests :
        requests[r].pc = "done" => Returned(r) = UserCurve(requests[r].user_id)

\* one call has finished a curve of three points or more while another
\* call for the same account is in the middle of its loop
C18_Witness ==
    \E r, q \in Requests :
        /\ r # q
        /\ requests[r].pc = "done"
        /\ requests[q].pc = "loop"
        /\ requests[r].user_id = requests[q].user_id
        /\ Len(Returned(r)) >= 3
        /\ requests[q].next = 2

\* the value of the listed positions whose lookups did not fail
PricedValue ==
    LET priced == {pos \in sent.positions : pos.symbol \notin lookup_failed}
    IN  SumOver(priced, [pos \in priced |-> CHOOSE v \in pos.market_value : TRUE])

\* C19: when the latest-price lookup fails for a position while a snapshot
\* is built, the snapshot is still produced and sent, the position is listed
\* with last_price and market_value null and is skipped in positions_value,
\* so total_assets = current_cash + the value of the positions priced.
C19_UnpricedPositionSkipped ==
    sent.type = "snapshot" =>
        /\ \A pos \in sent.positions :
              pos.symbol \in lookup_failed => (pos.last_price = {} /\ pos.market_value = {})
        /\ sent.positions_value = PricedValue
        /\ sent.total_assets = sent.current_cash + PricedValue

\* C20: after any sequence of register and unregister calls an account has
\* a snapshot job if and only if at least one websocket is registered for
\* it, and never more than one job however many websockets are registered.
C20_OneJobPerConnectedAccount ==
    \A a \in Accounts :
        /\ HasJob(jobs, a) <=>
              (a \in DOMAIN active_connections /\ active_connections[a] # {})
        /\ Cardinality({i \in 1..Len(jobs) : jobs[i] = a}) <= 1

\* an account with two websockets registered and one job, the other account
\* without a connection and without a job
C20_Witness ==
    /\ scheduler_started
    /\ \E a \in Accounts :
          /\ a \in DOMAIN active_connections
          /\ Cardinality(active_connections[a]) >= 2
          /\ HasJob(jobs, a)
    /\ \E a \in Accounts : a \notin DOMAIN active_connections
    /\ Len(jobs) = 1

\* C21: a websocket whose endpoint has terminated is a member of no
\* account's connection set
C21_TerminatedSocketLeavesNoTrace ==
    \A w \in WebSockets :
        endpoint[w].state = "closed" =>
            \A a \in DOMAIN active_connections : w \notin active_connections[a]

\* the account has no live websocket: its key is gone, or every socket of
\* its set was discarded by send_to_account
NoLiveSocket(a) ==
    a \notin DOMAIN active_connections \/ active_connections[a] = {}

\* C22: the snapshot job firing for an account without a live websocket
\* removes the job and sends no snapshot (so that no prices are saved)
C22_DeadAccountJobRemoved ==
    [][\A a \in Accounts :
          (/\ NoLiveSocket(a) /\ HasJob(jobs, a) /\ sent = NoSnapshot
           /\ \/ sent' # sent
              \/ (jobs' # jobs /\ active_connections' = active_connections))
          => (sent' = NoSnapshot /\ ~HasJob(jobs', a))]_vars

\* C23: a get returns a price only when the latest set of its key is
\* younger than the ttl at the time the get read, and then that set's
\* price; a get returning None leaves its key out of the cache; and
\* whatever a thread removes from the cache is at least ttl old at the time
\* that thread read
C23_CacheHonoursTtl ==
    [][\A t \in Threads :
          LET th == threads[t]
              k == th.key
              out == threads'[t].result
          IN  /\ (th.op = "get" /\ th.pc # "idle" /\ threads'[t].pc = "idle") =>
                    IF out # {}
                    THEN /\ k \in DOMAIN last_set
                         /\ out = {last_set[k].price}
                         /\ th.current_time - last_set[k].timestamp < TtlSeconds
                    ELSE k \notin DOMAIN cache'
              /\ threads'[t] # th =>
                    /\ \A j \in DOMAIN cache \ DOMAIN cache' :
                          th.current_time - cache[j].timestamp >= TtlSeconds
                    /\ threads'[t].result # {-1}]_vars

\* one thread got a price from the cache, and later the other thread
\* cleared the expired entries, which emptied the cache
C23_Witness ==
    \E t, u \in Threads :
        /\ t # u
        /\ threads[t].pc = "idle" /\ threads[t].op = "get"
        /\ threads[t].result \cap CachePrices # {}
        /\ threads[u].pc = "idle" /\ threads[u].op = "clear_expired"
        /\ last_set # <<>> /\ cache = <<>>
        /\ clock >= TtlSeconds

\* what holds of call_ai_for_decision at every moment
AiCallBounded ==
    LET n == Len(ai_call.posts)
    IN  /\ n <= MaxRetries
        /\ ai_call.api_key \in DEMO_API_KEYS => n = 0
        /\ \A i \in 1..(n - 1) : ai_call.posts[i] \in {"429", "RequestException"}
        /\ ai_call.pc = "post" => n < MaxRetries
        /\ ai_call.sleeps = IF ai_call.pc = "post" \/ n = 0 THEN n ELSE n - 1
        /\ (ai_call.pc = "done" /\ (n = 0 \/ ai_call.posts[n] # "200")) => ai_call.result = "None"
        /\ (ai_call.pc = "done" /\ n > 0 /\ n < MaxRetries) =>
              ai_call.posts[n] \notin {"429", "RequestException"}

LastDecision == CHOOSE d \in last_account.decision : TRUE

\* the order created for the account handled last, when there is one
LastOrder == CHOOSE o \in last_account.order : TRUE

\* an order exists only for a buy or sell of a supported symbol with a
\* portion in (0, 1] and a known price, a sell needing a position
OrderOnlyForValidDecision ==
    last_account.order # {} =>
        /\ last_account.decision # {}
        /\ Lower(LastDecision.operation) \in {"buy", "sell"}
        /\ Upper(LastDecision.symbol) \in SUPPORTED_SYMBOLS
        /\ \E p \in LastDecision.target_portion : p > 0 /\ p <= QuantityScale
        /\ Upper(LastDecision.symbol) \in ai_run.known
        /\ LastPrice(Upper(LastDecision.symbol), now) > 0
        /\ Lower(LastDecision.operation) = "sell" => last_account.available > 0

\* C25: an order is created only for a valid decision, and a pass of the
\* loop that creates no order leaves cash and positions as they were
C25_OrderOnlyForValidDecision ==
    /\ []OrderOnlyForValidDecision
    /\ [][(ai_run.pc = "loop" /\ ai_run'.pc = "loop" /\ last_account'.order = {})
            => UNCHANGED <<accounts, position_rows, order_seq>>]_vars

\* an earlier pass bought a position, and the run has handled its second
\* account, whose hold decision created no order
C25_Witness ==
    /\ ai_run.pc = "loop" /\ ai_run.i = 3
    /\ last_account.decision # {}
    /\ Lower(LastDecision.operation) = "hold"
    /\ last_account.order = {}
    /\ order_seq > 0
    /\ \E a \in Accounts, sym \in Symbols : position_rows[a][sym] > 0

\* C26: for an account whose call returned a decision, save_ai_decision is
\* called once: executed and without order for hold, not executed and
\* without order for a rejected decision, else with the order's id and
\* its execution status
C26_DecisionSavedOnce ==
    last_account.decision # {} =>
        /\ Len(last_account.saves) = 1
        /\ IF last_account.order # {}
           THEN /\ last_account.saves[1].order_id = LastOrder.id
                /\ last_account.saves[1].executed = (LastOrder.status = "FILLED")
           ELSE /\ last_account.saves[1].order_id = 0
                /\ last_account.saves[1].executed
                      = (Lower(LastDecision.operation) = "hold")

\* C27: the quantity of a SELL order is positive and at most the available
\* quantity of the position, the quantity of a BUY order is positive
C27_OrderQuantityInRange ==
    last_account.order # {} =>
        /\ LastOrder.quantity > 0
        /\ LastOrder.side = "SELL" => LastOrder.quantity <= last_account.available

\* the request carries a session token, or a username and a password
CredentialSupplied(rq) ==
    rq.session_token # {} \/ (rq.username # {} /\ rq.password # {})

\* authentication succeeds: an unexpired session of the request's user, or
\* the user's name with the right password, or with a first password of
\* at least 4 characters
AuthenticationSucceeds(rq) ==
    /\ rq.user_id \in Accounts
    /\ \/ /\ rq.session_token # {}
          /\ \E ses \in auth_sessions :
                /\ ses.session_token = The(rq.session_token)
                /\ ses.user_id = rq.user_id
                /\ ses.expires_at > now
       \/ /\ rq.username = {Username(rq.user_id)}
          /\ rq.password # {}
          /\ \/ passwords[rq.user_id] = {HashPassword(The(rq.password))}
             \/ passwords[rq.user_id] = {} /\ StrippedLen(The(rq.password)) >= 4

\* C28: an order is created only after authentication succeeded; a request
\* of an existing user that fails it is answered 401, or 400 without a
\* credential, and creates no order
C28_OrderOnlyAfterAuthentication ==
    [][response' # response =>
          LET rq == response'.request
          IN  /\ response'.created => AuthenticationSucceeds(rq)
              /\ (rq.user_id \in Accounts /\ ~AuthenticationSucceeds(rq)) =>
                    /\ ~response'.created
                    /\ order_seq' = order_seq
                    /\ response'.status = IF CredentialSupplied(rq) THEN 401 ELSE 400]_vars

====
